---- MODULE Spec2Model ----
(***************************************************************************)
(* BlindBidNFT: sealed-bid auction contract (src/unnamed/part_000).        *)
(*                                                                         *)
(* The contract's storage, the ether it holds, the event log and the       *)
(* block timestamp are the state.  Every external function is one action:  *)
(* a transaction runs its handler on the current storage and either        *)
(* commits the resulting storage or reverts to the storage it started on.  *)
(***************************************************************************)
EXTENDS Integers, Sequences, FiniteSets, TLC

VARIABLES
    now,                 \* block.timestamp
    auctions,            \* mapping(string => Auction)
    auctionBids,         \* mapping(string => Bid[])
    auctionWinners,      \* mapping(string => address)
    auctionWinningBids,  \* mapping(string => uint256)
    balance,             \* address(this).balance: the escrowed value
    events,              \* emitted events, per indexed nftId topic, in order
    transfers,           \* executed value transfers out of the contract, in order
    decryptable          \* handles the ACL marks publicly decryptable

vars == <<now, auctions, auctionBids, auctionWinners, auctionWinningBids,
          balance, events, transfers, decryptable>>

----------------------------------------------------------------------------
(* Bounds of the model *)

MaxTime == 6
MaxBids == 2
MaxAmount == 2
MaxDeposit == 2
MaxCreations == 2

----------------------------------------------------------------------------
(* Values *)

Ids == {"", "art"}

Principals == {"alice", "vault"}

ZeroAddress == "0x0"

\* Whether a plain value transfer to p is accepted.  "vault" stands for a
\* contract account whose receive hook reverts (or needs more than the
\* 2300 gas stipend that transfer forwards).
CanReceive(p) == p # "vault"

BytesLength(s) == IF s = "" THEN 0 ELSE 3

OK == "ok"

\* euint32 handles.  The contract treats a handle as opaque; clear is the
\* plaintext that only the decryption oracle can open it to.
NoHandle == [init |-> FALSE, clear |-> 0]

Handle(v) == [init |-> TRUE, clear |-> v]

\* FHE.isInitialized
isInitialized(h) == h.init

\* A decryption proof as the oracle signs it for a publicly decryptable handle.
KMSProof(h) == [signed |-> TRUE, handle |-> h, clear |-> h.clear]

\* A proof that the oracle did not sign.
ForgedProof(h, v) == [signed |-> FALSE, handle |-> h, clear |-> v]

\* FHE.checkSignatures(cts, abiEncodedClearValue, decryptionProof): passes
\* only for the oracle's signature over exactly these handles and this value.
checkSignatures(cts, clear, proof) ==
    /\ proof.signed
    /\ cts = <<proof.handle>>
    /\ clear = proof.clear

EmptyAuction ==
    [nftId |-> "", startTime |-> 0, endTime |-> 0,
     isActive |-> FALSE, isSettled |-> FALSE]

\* The contract's storage and ledger effects, as one value a handler works on.
State ==
    [auctions |-> auctions, auctionBids |-> auctionBids,
     auctionWinners |-> auctionWinners,
     auctionWinningBids |-> auctionWinningBids,
     balance |-> balance, events |-> events, transfers |-> transfers,
     decryptable |-> decryptable]

emit(S, id, ev) == [S EXCEPT !.events[id] = Append(@, ev)]

\* Variant: a failure that keeps what the handler had written so far
RevertKeepsWrites(pre, cur, reason) == [err |-> reason, st |-> cur]

\* A failed require / a failed transfer: the transaction's effects are
\* discarded and the storage is the one the transaction started on.
Revert(pre, cur, reason) == [err |-> reason, st |-> pre]

Return(cur) == [err |-> OK, st |-> cur]

----------------------------------------------------------------------------
(* createAuction *)

createAuctionExec(S, t, id, startTime, endTime) ==
    IF BytesLength(S.auctions[id].nftId) # 0
    THEN Revert(S, S, "Auction already exists")
    ELSE IF ~(startTime > t)
    THEN Revert(S, S, "Start time must be in future")
    ELSE IF ~(endTime > startTime)
    THEN Revert(S, S, "End time must be after start time")
    ELSE
        LET S1 == [S EXCEPT !.auctions[id] =
                      [nftId |-> id, startTime |-> startTime,
                       endTime |-> endTime, isActive |-> TRUE,
                       isSettled |-> FALSE]]
            S2 == emit(S1, id, [name |-> "AuctionCreated",
                                startTime |-> startTime, endTime |-> endTime])
        IN Return(S2)

----------------------------------------------------------------------------
(* placeBid *)

\* Variant: the window excludes the end time itself
onlyDuringAuctionBeforeEnd(S, t, id) ==
    IF ~S.auctions[id].isActive
    THEN "Auction not active"
    ELSE IF ~(t >= S.auctions[id].startTime /\ t < S.auctions[id].endTime)
    THEN "Outside auction time"
    ELSE OK

\* modifier onlyDuringAuction: the reason it reverts with, or OK
onlyDuringAuction(S, t, id) ==
    IF ~S.auctions[id].isActive
    THEN "Auction not active"
    ELSE IF ~(t >= S.auctions[id].startTime /\ t <= S.auctions[id].endTime)
    THEN "Outside auction time"
    ELSE OK

\* FHE.fromExternal(handle, inputProof): input.proofOk tells whether the
\* input proof authenticates the handle for this sender and contract.
fromExternalReverts(input) == ~input.proofOk

\* FHE.makePubliclyDecryptable(handle): from now on the oracle decrypts the
\* handle, and signs the result, for anyone who asks.
makePubliclyDecryptable(S, h) == [S EXCEPT !.decryptable = @ \cup {h}]

\* Variant: the bid is stored without the value sent with it
NewBidWithoutDeposit(sender, handle, value) ==
    [bidder |-> sender,
     encryptedBidAmount |-> handle,
     deposit |-> 0,
     isVerified |-> FALSE,
     decryptedBidAmount |-> 0]

\* Bid({bidder: msg.sender, encryptedBidAmount: ..., deposit: msg.value, ...})
NewBid(sender, handle, value) ==
    [bidder |-> sender,
     encryptedBidAmount |-> handle,
     deposit |-> value,
     isVerified |-> FALSE,
     decryptedBidAmount |-> 0]

\* Variant: the new bid is stored at index 0, in front of the earlier bids
pushFront(bids, newBid) == <<newBid>> \o bids

\* auctionBids[nftId].push(newBid)
push(bids, newBid) == Append(bids, newBid)

placeBidExec(S, t, sender, value, id, input) ==
    LET S0 == [S EXCEPT !.balance = @ + value]   \* msg.value arrives with the call
        gate == onlyDuringAuction(S0, t, id)
    IN
    IF gate # OK
    THEN Revert(S, S0, gate)
    ELSE IF ~(value > 0)
    THEN Revert(S, S0, "Bid amount must be positive")
    ELSE IF fromExternalReverts(input)
    THEN Revert(S, S0, "Invalid input proof")
    ELSE IF ~isInitialized(input.handle)
    THEN Revert(S, S0, "Invalid encrypted bid")
    ELSE
        LET newBid == NewBid(sender, input.handle, value)
            S1 == [S0 EXCEPT !.auctionBids[id] = push(@, newBid)]
            S2 == makePubliclyDecryptable(S1, newBid.encryptedBidAmount)
            S3 == emit(S2, id, [name |-> "BidPlaced", bidder |-> sender])
        IN Return(S3)

----------------------------------------------------------------------------
(* verifyBid *)

\* Variant: the already-verified check is missing
NeverAlreadyVerified(bid) == FALSE

\* require(!bid.isVerified, ...) reverts
AlreadyVerified(bid) == bid.isVerified

\* Variant: the handle list is always built from the auction's first bid
CiphertextsOfFirstBid(bids, bidIndex) == <<bids[1].encryptedBidAmount>>

\* cts[0] = FHE.toBytes32(bid.encryptedBidAmount): the handles the proof
\* is checked against
Ciphertexts(bids, bidIndex) == <<bids[bidIndex + 1].encryptedBidAmount>>

\* Variant: a decrypted amount of zero is accepted
DecryptedBidNotNegative(decryptedBid) == decryptedBid >= 0

\* require(decryptedBid > 0, ...) passes
DecryptedBidPositive(decryptedBid) == decryptedBid > 0

verifyBidExec(S, id, bidIndex, clear, proof) ==
    \* bidIndex is 0-based as in the contract; sequences are 1-based
    IF ~(bidIndex < Len(S.auctionBids[id]))
    THEN Revert(S, S, "Panic: array index out of bounds")
    ELSE
        LET bid == S.auctionBids[id][bidIndex + 1]
            cts == Ciphertexts(S.auctionBids[id], bidIndex)
        IN
        IF AlreadyVerified(bid)
        THEN Revert(S, S, "Bid already verified")
        ELSE IF ~checkSignatures(cts, clear, proof)
        THEN Revert(S, S, "Invalid decryption proof")
        ELSE IF ~DecryptedBidPositive(clear)
        THEN Revert(S, S, "Decrypted bid must be positive")
        ELSE
            LET S1 == [S EXCEPT
                         !.auctionBids[id][bidIndex + 1].decryptedBidAmount = clear,
                         !.auctionBids[id][bidIndex + 1].isVerified = TRUE]
                S2 == emit(S1, id, [name |-> "BidVerified",
                                    bidder |-> bid.bidder, amount |-> clear])
            IN Return(S2)

----------------------------------------------------------------------------
(* settleAuction *)

\* Variant: settlement is admitted from endTime on, the last instant of the
\* bidding window included
onlyAfterAuctionFromEnd(S, t, id) ==
    IF ~(t >= S.auctions[id].endTime)
    THEN "Auction still active"
    ELSE IF S.auctions[id].isSettled
    THEN "Auction already settled"
    ELSE OK

\* modifier onlyAfterAuction: the reason it reverts with, or OK
onlyAfterAuction(S, t, id) ==
    IF ~(t > S.auctions[id].endTime)
    THEN "Auction still active"
    ELSE IF S.auctions[id].isSettled
    THEN "Auction already settled"
    ELSE OK

\* Variant: a later bid replaces the leader on a tie as well
BeatsOrTies(amount, highestBid) == amount >= highestBid

\* Strict comparison of the scan: a later bid replaces the leader only when
\* it is strictly greater.
Beats(amount, highestBid) == amount > highestBid

\* Variant: the scan skips unverified bids instead of reverting on them
RECURSIVE ScanVerifiedBids(_, _, _)
ScanVerifiedBids(bids, i, acc) ==
    IF ~(i < Len(bids))
    THEN acc
    ELSE
        LET b == bids[i + 1] IN
        IF b.isVerified /\ b.decryptedBidAmount > acc.highestBid
        THEN ScanVerifiedBids(bids, i + 1,
                              [acc EXCEPT !.highestBid = b.decryptedBidAmount,
                                          !.winner = b.bidder,
                                          !.winnerDeposit = b.deposit])
        ELSE ScanVerifiedBids(bids, i + 1, acc)

\* The for loop of settleAuction from 0-based index i on; acc is
\* (highestBid, winner, winnerDeposit, ok); ok turns FALSE at the first
\* unverified bid, where the require inside the loop reverts.
RECURSIVE ScanBids(_, _, _)
ScanBids(bids, i, acc) ==
    IF ~(i < Len(bids))
    THEN acc
    ELSE
        LET b == bids[i + 1] IN
        IF ~b.isVerified
        THEN [acc EXCEPT !.ok = FALSE]
        ELSE IF Beats(b.decryptedBidAmount, acc.highestBid)
        THEN ScanBids(bids, i + 1,
                      [acc EXCEPT !.highestBid = b.decryptedBidAmount,
                                  !.winner = b.bidder,
                                  !.winnerDeposit = b.deposit])
        ELSE ScanBids(bids, i + 1, acc)

ScanStart ==
    [highestBid |-> 0, winner |-> ZeroAddress, winnerDeposit |-> 0, ok |-> TRUE]

\* payable(to).transfer(amount): fails when the contract holds less than
\* amount or when the recipient does not accept the payment.
TransferFails(S, to, amount) == S.balance < amount \/ ~CanReceive(to)

\* Variant: the payout sends the whole escrowed balance
TransferWholeEscrow(S, id, to, amount) ==
    [S EXCEPT !.balance = 0,
              !.transfers = Append(@, [nftId |-> id, to |-> to,
                                       amount |-> S.balance])]

Transfer(S, id, to, amount) ==
    [S EXCEPT !.balance = @ - amount,
              !.transfers = Append(@, [nftId |-> id, to |-> to, amount |-> amount])]

\* Variant: the outcome and the settled flag are not yet in storage when
\* the payment is made
WritesAfterTransfer(S, id, r) == S

\* Variant: the settled flag is written to every auction record
WritesSettlingEveryAuction(S, id, r) ==
    [S EXCEPT !.auctionWinners[id] = r.winner,
              !.auctionWinningBids[id] = r.highestBid,
              !.auctions = [j \in Ids |-> [S.auctions[j] EXCEPT !.isSettled = TRUE]]]

\* The storage at the moment the payment is made: the outcome and the
\* settled flag are written first
WritesBeforeTransfer(S, id, r) ==
    [S EXCEPT !.auctionWinners[id] = r.winner,
              !.auctionWinningBids[id] = r.highestBid,
              !.auctions[id].isSettled = TRUE]

settleAuctionExec(S, t, id) ==
    LET gate == onlyAfterAuction(S, t, id)
        bids == S.auctionBids[id]
    IN
    IF gate # OK
    THEN Revert(S, S, gate)
    ELSE IF ~(Len(bids) > 0)
    THEN Revert(S, S, "No bids to settle")
    ELSE
        LET r == ScanBids(bids, 0, ScanStart) IN
        IF ~r.ok
        THEN Revert(S, S, "All bids must be verified")
        ELSE IF ~(r.winner # ZeroAddress)
        THEN Revert(S, S, "No valid winner found")
        ELSE
            LET S1 == WritesBeforeTransfer(S, id, r)
            IN
            IF TransferFails(S1, r.winner, r.winnerDeposit)
            THEN Revert(S, S1, "Transfer failed")
            ELSE
                LET S2 == Transfer(S1, id, r.winner, r.winnerDeposit)
                    S3 == emit(S2, id, [name |-> "AuctionSettled",
                                        winner |-> r.winner,
                                        amount |-> r.highestBid])
                IN Return(S3)

----------------------------------------------------------------------------
(* settleAuction re-entered from the recipient of the payment *)

NoCall == [op |-> "none", nftId |-> ""]

\* What the recipient's code can do when the payment reaches it: nothing,
\* or call settleAuction back before the outer call has returned
HookCalls ==
    {NoCall} \cup {[op |-> "settleAuction", nftId |-> j] : j \in Ids}

\* The hook's call runs on the storage as it is during the payment. The hook
\* catches a failure of its call; a success keeps what the call wrote.
RunHook(S, t, call) ==
    IF call.op = "settleAuction"
    THEN settleAuctionExec(S, t, call.nftId)
    ELSE [err |-> "none", st |-> S]

\* settleAuction whose payment runs the recipient's hook: the result of the
\* outer call, with the result of the hook's call as `inner`
settleAuctionReenteredExec(S, t, id, call) ==
    LET outer == settleAuctionExec(S, t, id) IN
    IF outer.err # OK
    THEN [err |-> outer.err, st |-> outer.st, inner |-> "none"]
    ELSE
        LET r == ScanBids(S.auctionBids[id], 0, ScanStart)
            S1 == WritesBeforeTransfer(S, id, r)
            S2 == Transfer(S1, id, r.winner, r.winnerDeposit)
            hook == RunHook(S2, t, call)
            S3 == emit(hook.st, id, [name |-> "AuctionSettled",
                                     winner |-> r.winner,
                                     amount |-> r.highestBid])
        IN [err |-> OK, st |-> S3, inner |-> hook.err]

----------------------------------------------------------------------------
(* Transactions *)

\* The storage after a transaction is the storage its handler ended on.
Commit(S) ==
    /\ auctions' = S.auctions
    /\ auctionBids' = S.auctionBids
    /\ auctionWinners' = S.auctionWinners
    /\ auctionWinningBids' = S.auctionWinningBids
    /\ balance' = S.balance
    /\ events' = S.events
    /\ transfers' = S.transfers
    /\ decryptable' = S.decryptable

\* The model follows one nftId per run: once an auction is registered,
\* callers address that nftId.
CallIds ==
    IF \E j \in Ids : auctions[j].isActive
    THEN {j \in Ids : auctions[j].isActive}
    ELSE Ids

\* How many times createAuction has succeeded for id
Creations(id) ==
    Cardinality({i \in DOMAIN events[id] : events[id][i].name = "AuctionCreated"})

Init ==
    /\ now = 0
    /\ auctions = [id \in Ids |-> EmptyAuction]
    /\ auctionBids = [id \in Ids |-> <<>>]
    /\ auctionWinners = [id \in Ids |-> ZeroAddress]
    /\ auctionWinningBids = [id \in Ids |-> 0]
    /\ balance = 0
    /\ events = [id \in Ids |-> <<>>]
    /\ transfers = <<>>
    /\ decryptable = {}

\* A block with a later timestamp
Tick ==
    /\ now < MaxTime
    /\ now' = now + 1
    /\ UNCHANGED <<auctions, auctionBids, auctionWinners, auctionWinningBids,
                   balance, events, transfers, decryptable>>

createAuction ==
    \E id \in CallIds, startTime \in now..(now + 1) :
      \E endTime \in startTime..(startTime + 1) :
        LET r == createAuctionExec(State, now, id, startTime, endTime) IN
        /\ r.err = OK => Creations(id) < MaxCreations
        /\ Commit(r.st)
        /\ UNCHANGED now

EncryptedInputs ==
    {[handle |-> Handle(v), proofOk |-> TRUE] : v \in 0..MaxAmount}
      \cup {[handle |-> NoHandle, proofOk |-> TRUE],
            [handle |-> Handle(1), proofOk |-> FALSE]}

placeBid ==
    \E id \in CallIds, sender \in Principals, value \in 0..MaxDeposit,
       input \in EncryptedInputs :
        LET r == placeBidExec(State, now, sender, value, id, input) IN
        /\ r.err = OK => Len(auctionBids[id]) < MaxBids
        /\ Commit(r.st)
        /\ UNCHANGED now

\* The proofs a caller can present with a claimed value: the oracle's proof
\* for any publicly decryptable handle, or a forgery of the claimed value.
Proofs(clear) ==
    {KMSProof(h) : h \in decryptable} \cup {ForgedProof(Handle(clear), clear)}

verifyBid ==
    \E id \in CallIds, bidIndex \in 0..MaxBids, clear \in 0..MaxAmount :
      \E proof \in Proofs(clear) :
        LET r == verifyBidExec(State, id, bidIndex, clear, proof) IN
        /\ Commit(r.st)
        /\ UNCHANGED now

settleAuction ==
    \E id \in CallIds :
        LET r == settleAuctionExec(State, now, id) IN
        /\ Commit(r.st)
        /\ UNCHANGED now

Next ==
    \/ Tick
    \/ createAuction
    \/ placeBid
    \/ verifyBid
    \/ settleAuction

\* The contract from its deployment on, with one nftId in use per run (the
\* empty nftId or a non-empty one) and time running up to MaxTime.
Spec == Init /\ [][Next]_vars

settleAuctionReentered ==
    \E id \in CallIds : \E call \in HookCalls :
        LET r == settleAuctionReenteredExec(State, now, id, call) IN
        /\ Commit(r.st)
        /\ UNCHANGED now

NextReentrant ==
    \/ Tick
    \/ createAuction
    \/ placeBid
    \/ verifyBid
    \/ settleAuctionReentered

\* The same contract when every recipient of a payout may be a contract
\* whose receive hook calls back into settleAuction.
SpecReentrant == Init /\ [][NextReentrant]_vars

\* The contract when the clock keeps advancing and callers keep attempting
\* verifyBid and settleAuction: a call that can succeed is eventually made.
SpecFair ==
    /\ Init /\ [][Next]_vars
    /\ WF_vars(Tick)
    /\ WF_vars(verifyBid)
    /\ WF_vars(settleAuction)

\* Two auctions side by side: callers address both nftIds in one run. To
\* keep the run finite and small the clock stops at MaxTimeTwo, each nftId
\* is created once with a window of the shape (now + 1, now + 2), and bids
\* are deposits of MaxDeposit by receiving principals on handles of
\* positive plaintext, verified with the oracle's proofs.
MaxTimeTwo == 3

TickTwo == Tick /\ now < MaxTimeTwo

createAuctionTwo ==
    \E id \in Ids :
        LET r == createAuctionExec(State, now, id, now + 1, now + 2) IN
        /\ r.err = OK => Creations(id) = 0
        /\ Commit(r.st)
        /\ UNCHANGED now

placeBidTwo ==
    \E id \in Ids, sender \in {p \in Principals : CanReceive(p)},
       v \in 1..MaxAmount :
        LET r == placeBidExec(State, now, sender, MaxDeposit, id,
                              [handle |-> Handle(v), proofOk |-> TRUE]) IN
        /\ r.err = OK => Len(auctionBids[id]) < MaxBids
        /\ Commit(r.st)
        /\ UNCHANGED now

verifyBidTwo ==
    \E id \in Ids, bidIndex \in 0..MaxBids, h \in decryptable :
        LET r == verifyBidExec(State, id, bidIndex, h.clear, KMSProof(h)) IN
        /\ Commit(r.st)
        /\ UNCHANGED now

settleAuctionTwo ==
    \E id \in Ids :
        LET r == settleAuctionExec(State, now, id) IN
        /\ Commit(r.st)
        /\ UNCHANGED now

NextTwo ==
    \/ TickTwo
    \/ createAuctionTwo
    \/ placeBidTwo
    \/ verifyBidTwo
    \/ settleAuctionTwo

SpecTwo == Init /\ [][NextTwo]_vars

----------------------------------------------------------------------------
(* Vocabulary of the properties *)

Registered(id) == auctions[id].isActive

BidIndices(id) == DOMAIN auctionBids[id]

AllVerified(id) == \A i \in BidIndices(id) : auctionBids[id][i].isVerified

SomeUnverified(id) == \E i \in BidIndices(id) : ~auctionBids[id][i].isVerified

InWindow(id) == auctions[id].startTime <= now /\ now <= auctions[id].endTime

LastEventName(id) ==
    IF events[id] = <<>> THEN "none" ELSE events[id][Len(events[id])].name

HasSettled(id) ==
    \E i \in DOMAIN events[id] : events[id][i].name = "AuctionSettled"

TransfersFor(id) ==
    Cardinality({i \in DOMAIN transfers : transfers[i].nftId = id})

\* The greatest decrypted amount of a non-empty ledger, and the lowest
\* (1-based) position holding it
GreatestAmount(bids) ==
    CHOOSE m \in {bids[i].decryptedBidAmount : i \in DOMAIN bids} :
        \A i \in DOMAIN bids : bids[i].decryptedBidAmount <= m

FirstGreatest(bids) ==
    CHOOSE i \in DOMAIN bids :
        /\ bids[i].decryptedBidAmount = GreatestAmount(bids)
        /\ \A j \in 1..(i - 1) : bids[j].decryptedBidAmount < GreatestAmount(bids)

\* This step is a successful settleAuction(id): it emitted AuctionSettled.
SettleStep(id) ==
    /\ Len(events'[id]) = Len(events[id]) + 1
    /\ events'[id][Len(events'[id])].name = "AuctionSettled"

\* Schedules a caller can pass, valid or not
Schedules == {<<s, e>> \in (now..(now + 1)) \X (now..(now + 2)) : e <= s + 1}

\* Every schedule a caller can pass that is valid at the current time
ValidSchedules == {sch \in Schedules : sch[1] > now /\ sch[2] > sch[1]}

WellFormedInputs == {in \in EncryptedInputs : in.proofOk /\ in.handle.init}

\* Every proof a caller could present with a claimed value, whether or not
\* the oracle has been asked for it
AllProofs(clear) ==
    {KMSProof(Handle(v)) : v \in 0..MaxAmount}
      \cup {ForgedProof(Handle(clear), clear)}

----------------------------------------------------------------------------
(* C1 *)

\* C1: after settleAuction(id) has succeeded once, every later settleAuction(id)
\* fails with "Auction already settled", and exactly one value transfer has
\* been executed for that id.
C1_SettlementIsSingleShot ==
    \A id \in Ids :
        HasSettled(id) =>
            /\ settleAuctionExec(State, now, id).err = "Auction already settled"
            /\ TransfersFor(id) = 1

----------------------------------------------------------------------------
(* C2 *)

\* C2: a settled auction records as winning amount the greatest decrypted
\* amount of its bids, and as winner the bidder of the lowest index holding it.
C2_WinnerIsFirstGreatest ==
    \A id \in Ids :
        auctions[id].isSettled =>
            /\ auctionBids[id] # <<>>
            /\ auctionWinningBids[id] = GreatestAmount(auctionBids[id])
            /\ auctionWinners[id] =
                   auctionBids[id][FirstGreatest(auctionBids[id])].bidder

\* A settled auction whose two bids tie on the amount, placed by different
\* bidders
C2_Witness ==
    \E id \in Ids :
        /\ auctions[id].isSettled
        /\ Len(auctionBids[id]) = 2
        /\ auctionBids[id][1].decryptedBidAmount = auctionBids[id][2].decryptedBidAmount
        /\ auctionBids[id][1].bidder # auctionBids[id][2].bidder
        /\ auctionWinners[id] = auctionBids[id][1].bidder

----------------------------------------------------------------------------
(* C3 *)

\* C3 as stated: with at least one bid unverified, settleAuction fails with
\* "All bids must be verified" and changes nothing.
C3_FailsWithUnverifiedBidsRemain ==
    \A id \in Ids :
        SomeUnverified(id) =>
            /\ settleAuctionExec(State, now, id).err = "All bids must be verified"
            /\ settleAuctionExec(State, now, id).st = State

\* C3 amended: with at least one bid unverified, settleAuction fails and
\* changes nothing, with "Auction still active" up to the end time and with
\* "All bids must be verified" after it; no settled auction holds an
\* unverified bid.
C3_NoSettlementWithUnverifiedBid ==
    \A id \in Ids :
        SomeUnverified(id) =>
            /\ ~auctions[id].isSettled
            /\ settleAuctionExec(State, now, id).st = State
            /\ settleAuctionExec(State, now, id).err =
                   IF now > auctions[id].endTime
                   THEN "All bids must be verified"
                   ELSE "Auction still active"

\* After the end time, an auction with a verified bid and an unverified bid
C3_Witness ==
    \E id \in Ids :
        /\ now > auctions[id].endTime
        /\ SomeUnverified(id)
        /\ \E i \in BidIndices(id) : auctionBids[id][i].isVerified
        /\ settleAuctionExec(State, now, id).err = "All bids must be verified"

----------------------------------------------------------------------------
(* C4 *)

\* C4: once verifyBid has succeeded for the last unverified bid of an auction,
\* the settleAuction call that follows succeeds.
C4_SettleSucceedsAfterLastVerification ==
    \A id \in Ids :
        (LastEventName(id) = "BidVerified" /\ AllVerified(id)) =>
            settleAuctionExec(State, now, id).err = OK

----------------------------------------------------------------------------
(* C5 *)

\* C5: createAuction succeeds at most once per nftId, and once it has, every
\* later createAuction with that nftId and a valid schedule fails with
\* "Auction already exists".
C5_CreateAuctionOncePerId ==
    \A id \in Ids :
        /\ Creations(id) <= 1
        /\ Creations(id) = 1 =>
               \A sch \in ValidSchedules :
                   createAuctionExec(State, now, id, sch[1], sch[2]).err =
                       "Auction already exists"

----------------------------------------------------------------------------
(* C6 *)

\* C6: for a registered auction and a well-formed encrypted input, placeBid
\* within [startTime, endTime] succeeds iff the deposit is positive; outside
\* the window it fails with "Outside auction time" and changes nothing.
C6_PlaceBidWindow ==
    \A id \in Ids :
        Registered(id) =>
            \A sender \in Principals, value \in 0..MaxDeposit,
               input \in WellFormedInputs :
                LET r == placeBidExec(State, now, sender, value, id, input) IN
                IF InWindow(id)
                THEN (r.err = OK) <=> (value > 0)
                ELSE r.err = "Outside auction time" /\ r.st = State

\* A bid was just placed at the last instant of the window.
C6_Witness ==
    \E id \in Ids :
        /\ Registered(id)
        /\ now = auctions[id].endTime
        /\ LastEventName(id) = "BidPlaced"
        /\ placeBidExec(State, now, "alice", 1, id,
                        [handle |-> Handle(1), proofOk |-> TRUE]).err = OK

----------------------------------------------------------------------------
(* C7 *)

\* C7: a verified bid stays verified with the amount recorded, in every later
\* state, and every further verifyBid on its index fails with
\* "Bid already verified" and changes nothing, whatever value and proof.
C7_VerificationIsPermanent ==
    /\ [][\A id \in Ids : \A i \in BidIndices(id) :
            auctionBids[id][i].isVerified =>
              /\ i \in DOMAIN auctionBids'[id]
              /\ auctionBids'[id][i] = auctionBids[id][i]]_vars
    /\ [](\A id \in Ids : \A i \in BidIndices(id) :
            auctionBids[id][i].isVerified =>
              \A clear \in 0..MaxAmount : \A proof \in AllProofs(clear) :
                LET r == verifyBidExec(State, id, i - 1, clear, proof) IN
                r.err = "Bid already verified" /\ r.st = State)

\* A verified bid in a later state (its auction has since been settled), for
\* which the oracle's own proof is rejected as a second verification
C7_Witness ==
    \E id \in Ids : \E i \in BidIndices(id) :
        LET bid == auctionBids[id][i] IN
        /\ bid.isVerified
        /\ auctions[id].isSettled
        /\ verifyBidExec(State, id, i - 1, bid.decryptedBidAmount,
                         KMSProof(bid.encryptedBidAmount)).err
               = "Bid already verified"

----------------------------------------------------------------------------
(* C8 *)

\* C8: no bid of an auction is verified while the current time is at most
\* the auction's end time.
C8_SealedUntilEnd ==
    \A id \in Ids : \A i \in BidIndices(id) :
        auctionBids[id][i].isVerified => now > auctions[id].endTime

----------------------------------------------------------------------------
(* C9 *)

----------------------------------------------------------------------------
(* C10 *)

\* C10: a call that fails leaves the registry, the bids, the outcomes, the
\* escrowed balance and the event log as they were before the call.
C10_FailureChangesNothing ==
    /\ \A id \in Ids : \A sch \in Schedules :
         LET r == createAuctionExec(State, now, id, sch[1], sch[2]) IN
         r.err # OK => r.st = State
    /\ \A id \in Ids : \A sender \in Principals : \A value \in 0..MaxDeposit :
         \A input \in EncryptedInputs :
           LET r == placeBidExec(State, now, sender, value, id, input) IN
           r.err # OK => r.st = State
    /\ \A id \in Ids : \A bidIndex \in 0..MaxBids : \A clear \in 0..MaxAmount :
         \A proof \in AllProofs(clear) :
           LET r == verifyBidExec(State, id, bidIndex, clear, proof) IN
           r.err # OK => r.st = State
    /\ \A id \in Ids :
         LET r == settleAuctionExec(State, now, id) IN
         r.err # OK => r.st = State

\* settleAuction fails at its last step, the transfer to the winner, after it
\* has written the outcome and the settled flag.
C10_Witness ==
    \E id \in Ids :
        /\ AllVerified(id)
        /\ settleAuctionExec(State, now, id).err = "Transfer failed"

----------------------------------------------------------------------------
(* C11 *)

\* getAuctionWinner(nftId): the recorded outcome of a settled auction
getAuctionWinnerExec(S, id) ==
    IF ~S.auctions[id].isSettled
    THEN [err |-> "Auction not settled", winner |-> ZeroAddress, winningBid |-> 0]
    ELSE [err |-> OK, winner |-> S.auctionWinners[id],
          winningBid |-> S.auctionWinningBids[id]]

\* The outcome mappings hold a winner for this nftId
OutcomeRecorded(id) == auctionWinners[id] # ZeroAddress

\* C11: an outcome (winner, winning amount) is recorded for an nftId exactly
\* when its settled flag is true, and once recorded neither the winner nor
\* the amount ever changes.
C11_OutcomeIffSettledAndFinal ==
    /\ [](\A id \in Ids :
            /\ OutcomeRecorded(id) <=> auctions[id].isSettled
            /\ getAuctionWinnerExec(State, id).err = OK <=> OutcomeRecorded(id))
    /\ [][\A id \in Ids :
            OutcomeRecorded(id) =>
              /\ auctionWinners'[id] = auctionWinners[id]
              /\ auctionWinningBids'[id] = auctionWinningBids[id]]_vars

----------------------------------------------------------------------------
(* C12 *)

\* C12: in every reachable state no auction is both active and settled.
C12_ActiveAndSettledExclusive ==
    \A id \in Ids : ~(auctions[id].isActive /\ auctions[id].isSettled)

----------------------------------------------------------------------------
(* C13 *)

\* placeBid can succeed for this nftId at the current time with some input
PlaceBidCanSucceed(id) ==
    \E sender \in Principals : \E value \in 0..MaxDeposit :
      \E input \in EncryptedInputs :
        placeBidExec(State, now, sender, value, id, input).err = OK

\* C13: once an auction is settled its settled flag never returns to false,
\* no later placeBid on it succeeds, and its bid count never changes.
C13_SettledIsTerminal ==
    /\ [](\A id \in Ids : auctions[id].isSettled => ~PlaceBidCanSucceed(id))
    /\ [][\A id \in Ids :
            auctions[id].isSettled =>
              /\ auctions'[id].isSettled
              /\ Len(auctionBids'[id]) = Len(auctionBids[id])]_vars

----------------------------------------------------------------------------
(* C14 *)

\* The step is a successful call on this nftId that emitted the named event
EmitStep(id, name) ==
    /\ Len(events'[id]) = Len(events[id]) + 1
    /\ events'[id][Len(events'[id])].name = name

\* C14: settleAuction is the only operation that releases escrow: a
\* createAuction or verifyBid step leaves the contract's balance unchanged
\* and pays no one, a successful placeBid raises the balance by exactly the
\* deposit it stores with the bid and pays no one, and a step that lowers
\* the balance or transfers value is a successful settleAuction.
C14_OnlySettleReleasesEscrow ==
    [][/\ \A id \in Ids :
            EmitStep(id, "AuctionCreated") \/ EmitStep(id, "BidVerified") =>
              balance' = balance /\ transfers' = transfers
       /\ \A id \in Ids :
            EmitStep(id, "BidPlaced") =>
              /\ Len(auctionBids'[id]) = Len(auctionBids[id]) + 1
              /\ balance' =
                   balance + auctionBids'[id][Len(auctionBids'[id])].deposit
              /\ transfers' = transfers
       /\ balance' # balance =>
            \E id \in Ids : EmitStep(id, "BidPlaced") \/ SettleStep(id)
       /\ balance' < balance \/ transfers' # transfers =>
            \E id \in Ids : SettleStep(id)]_vars

\* Two deposits of different size are in escrow for an auction whose bids
\* have both been verified, and nothing has been paid out
C14_Witness ==
    \E id \in Ids :
        /\ Len(auctionBids[id]) = 2
        /\ AllVerified(id)
        /\ ~auctions[id].isSettled
        /\ auctionBids[id][1].deposit # auctionBids[id][2].deposit
        /\ balance = auctionBids[id][1].deposit + auctionBids[id][2].deposit
        /\ transfers = <<>>

----------------------------------------------------------------------------
(* C15 *)

\* The attestation is the oracle's proof that this bid's handle decrypts to
\* the claimed value
Authenticates(bid, clear, proof) ==
    /\ proof = KMSProof(bid.encryptedBidAmount)
    /\ clear = bid.encryptedBidAmount.clear

\* C15: every verified bid's decrypted amount is the plaintext of its own
\* encrypted handle and every unverified bid's amount is 0; a verifyBid on an
\* unverified bid whose attestation does not authenticate the claimed value
\* against that bid's handle fails with "Invalid decryption proof" and
\* leaves the bid unverified, its amount 0 and the event log unchanged.
C15_VerifiedAmountIsPlaintext ==
    \A id \in Ids : \A i \in BidIndices(id) :
      LET bid == auctionBids[id][i] IN
      /\ bid.isVerified =>
           bid.decryptedBidAmount = bid.encryptedBidAmount.clear
      /\ ~bid.isVerified =>
           /\ bid.decryptedBidAmount = 0
           /\ \A clear \in 0..MaxAmount : \A proof \in AllProofs(clear) :
                ~Authenticates(bid, clear, proof) =>
                  LET r == verifyBidExec(State, id, i - 1, clear, proof) IN
                  /\ r.err = "Invalid decryption proof"
                  /\ r.st = State

\* Two bids with different handles, the first verified and the second not:
\* the oracle's proof for the first bid's handle is rejected for the second
C15_Witness ==
    \E id \in Ids :
        /\ Len(auctionBids[id]) = 2
        /\ auctionBids[id][1].isVerified
        /\ ~auctionBids[id][2].isVerified
        /\ auctionBids[id][1].encryptedBidAmount
             # auctionBids[id][2].encryptedBidAmount
        /\ verifyBidExec(State, id, 1,
                         auctionBids[id][1].encryptedBidAmount.clear,
                         KMSProof(auctionBids[id][1].encryptedBidAmount)).err
             = "Invalid decryption proof"

----------------------------------------------------------------------------
(* C16 *)

\* C16: settleAuction on a registered auction at a time not after endTime
\* (endTime itself included) fails with "Auction still active" and changes
\* nothing, and at no time can a placeBid and a settleAuction on the same
\* nftId both succeed.
C16_SettleOnlyAfterEnd ==
    \A id \in Ids :
      LET r == settleAuctionExec(State, now, id) IN
      /\ Registered(id) /\ now <= auctions[id].endTime =>
           r.err = "Auction still active" /\ r.st = State
      /\ ~(PlaceBidCanSucceed(id) /\ r.err = OK)

\* At the last instant of the window every bid is already verified and a
\* further bid is still accepted: only the time gate stops the settlement
C16_Witness ==
    \E id \in Ids :
        /\ Registered(id)
        /\ now = auctions[id].endTime
        /\ Len(auctionBids[id]) >= 1
        /\ AllVerified(id)
        /\ PlaceBidCanSucceed(id)
        /\ settleAuctionExec(State, now, id).err = "Auction still active"

----------------------------------------------------------------------------
(* C17 *)

\* getAuction(nftId): returns the stored record, a never-written one included
getAuctionExec(S, id) ==
    [err |-> OK, auction |-> S.auctions[id]]

\* getBid(nftId, index): the bid stored at the 0-based index
getBidExec(S, id, index) ==
    IF ~(index < Len(S.auctionBids[id]))
    THEN [err |-> "Panic: array index out of bounds"]
    ELSE [err |-> OK, bid |-> S.auctionBids[id][index + 1]]

\* C17: getAuction fails when no auction is registered under the nftId, and
\* getBid fails when the index is not below the auction's bid count; neither
\* returns a default record.
C17_ViewsFailOnMissing ==
    \A id \in Ids :
      /\ ~Registered(id) => getAuctionExec(State, id).err # OK
      /\ \A index \in 0..MaxBids :
           index >= Len(auctionBids[id]) => getBidExec(State, id, index).err # OK

----------------------------------------------------------------------------
(* C18 *)

\* Schedules a caller can pass whose start is not in the future or whose end
\* is not after the start
InvalidSchedules == {sch \in Schedules : sch[1] <= now \/ sch[2] <= sch[1]}

\* C18: createAuction with startTime <= now or endTime <= startTime fails
\* and registers nothing (with a schedule error when the nftId is not yet
\* stored); every registered auction has endTime > startTime, its startTime
\* was in the future when it was created, and its startTime and endTime
\* never change afterwards.
C18_ScheduleValidAndFixed ==
    /\ [](\A id \in Ids :
            /\ \A sch \in InvalidSchedules :
                 LET r == createAuctionExec(State, now, id, sch[1], sch[2]) IN
                 /\ r.err # OK
                 /\ r.st = State
                 /\ BytesLength(auctions[id].nftId) = 0 =>
                      r.err \in {"Start time must be in future",
                                 "End time must be after start time"}
            /\ Registered(id) => auctions[id].endTime > auctions[id].startTime)
    /\ [][\A id \in Ids :
            /\ EmitStep(id, "AuctionCreated") => auctions'[id].startTime > now
            /\ Registered(id) =>
                 /\ auctions'[id].startTime = auctions[id].startTime
                 /\ auctions'[id].endTime = auctions[id].endTime]_vars

----------------------------------------------------------------------------
(* C19 *)

\* The greatest decrypted amount among the bids other than the winning one,
\* for a ledger of at least two bids
SecondGreatestAmount(bids) ==
    LET w == FirstGreatest(bids)
        others == {bids[i].decryptedBidAmount : i \in DOMAIN bids \ {w}}
    IN CHOOSE m \in others : \A a \in others : a <= m

\* C19: a settlement over at least two bids is a second-price (Vickrey)
\* settlement: the highest bidder wins and the price recorded for the winner
\* is the amount of the second-highest bid.
C19_WinnerPaysSecondPrice ==
    [][\A id \in Ids :
         SettleStep(id) /\ Len(auctionBids[id]) >= 2 =>
           /\ auctionWinners'[id] =
                auctionBids[id][FirstGreatest(auctionBids[id])].bidder
           /\ auctionWinningBids'[id] = SecondGreatestAmount(auctionBids[id])]_vars

----------------------------------------------------------------------------
(* C20 *)

\* C20: when the recipient's hook calls settleAuction on the same nftId
\* while the payment of a settlement is being made, that inner call fails
\* with "Auction already settled", and no step, whatever the hook calls,
\* makes more than one transfer.
C20_ReentrantSettleFails ==
    /\ [](\A id \in Ids :
            LET r == settleAuctionReenteredExec(
                         State, now, id, [op |-> "settleAuction", nftId |-> id])
            IN r.err = OK => r.inner = "Auction already settled")
    /\ [][Len(transfers') <= Len(transfers) + 1]_vars

\* A settlement is about to succeed while the escrow holds enough to pay the
\* winner twice: the hook's settleAuction is stopped by the settled flag alone
C20_Witness ==
    \E id \in Ids :
      LET r == settleAuctionReenteredExec(
                   State, now, id, [op |-> "settleAuction", nftId |-> id])
      IN /\ r.err = OK
         /\ r.inner = "Auction already settled"
         /\ Len(r.st.transfers) = Len(transfers) + 1
         /\ r.st.balance >= r.st.transfers[Len(r.st.transfers)].amount

----------------------------------------------------------------------------
(* C21 *)

\* C21: in every reachable state an unverified bid has decrypted amount 0
\* and a verified bid has a decrypted amount > 0; a verifyBid that presents
\* the oracle's proof that an unverified bid's handle decrypts to 0 fails
\* with "Decrypted bid must be positive" and leaves the bid unverified.
C21_VerifiedIffPositiveAmount ==
    \A id \in Ids : \A i \in BidIndices(id) :
      LET bid == auctionBids[id][i] IN
      /\ ~bid.isVerified => bid.decryptedBidAmount = 0
      /\ bid.isVerified => bid.decryptedBidAmount > 0
      /\ ~bid.isVerified /\ bid.encryptedBidAmount.clear = 0 =>
           LET r == verifyBidExec(State, id, i - 1, 0,
                                  KMSProof(bid.encryptedBidAmount)) IN
           /\ r.err = "Decrypted bid must be positive"
           /\ r.st = State

\* An auction holds a verified bid and an unverified bid that encrypts 0,
\* whose authentic decryption is refused
C21_Witness ==
    \E id \in Ids :
        /\ Len(auctionBids[id]) = 2
        /\ auctionBids[id][1].isVerified
        /\ ~auctionBids[id][2].isVerified
        /\ auctionBids[id][2].encryptedBidAmount.clear = 0
        /\ verifyBidExec(State, id, 1, 0,
                         KMSProof(auctionBids[id][2].encryptedBidAmount)).err
             = "Decrypted bid must be positive"

----------------------------------------------------------------------------
(* C22 *)

\* C22: settleAuction never fails with "No valid winner found": whenever an
\* auction has at least one bid and all its bids are verified, the scan
\* ends with a highest amount > 0 and a winner that is not address(0).
C22_NoValidWinnerUnreachable ==
    \A id \in Ids :
      /\ settleAuctionExec(State, now, id).err # "No valid winner found"
      /\ Len(auctionBids[id]) >= 1 /\ AllVerified(id) =>
           LET r == ScanBids(auctionBids[id], 0, ScanStart) IN
           /\ r.ok
           /\ r.highestBid > 0
           /\ r.winner # ZeroAddress

\* After the end of an auction whose two bids are both verified, the scan
\* is reached and settleAuction gets past the winner check
C22_Witness ==
    \E id \in Ids :
        /\ Len(auctionBids[id]) = 2
        /\ AllVerified(id)
        /\ now > auctions[id].endTime
        /\ ~auctions[id].isSettled
        /\ settleAuctionExec(State, now, id).err \in {OK, "Transfer failed"}

----------------------------------------------------------------------------
(* C23 *)

\* C23: the bid ledger is append-only. A successful placeBid leaves the
\* earlier bids as they are and adds one bid at index = previous bid count,
\* unverified, with amount 0, the caller as bidder, the attached value as
\* deposit and the submitted handle; in every step the bid count does not
\* decrease, it grows only in a placeBid step and by one, and the bidder,
\* deposit and encrypted handle stored at an index do not change.
C23_LedgerIsAppendOnly ==
    /\ [](\A id \in Ids : \A sender \in Principals :
            \A value \in 0..MaxDeposit : \A input \in EncryptedInputs :
              LET r == placeBidExec(State, now, sender, value, id, input) IN
              r.err = OK =>
                r.st.auctionBids[id] =
                  auctionBids[id] \o
                    <<[bidder |-> sender,
                       encryptedBidAmount |-> input.handle,
                       deposit |-> value,
                       isVerified |-> FALSE,
                       decryptedBidAmount |-> 0]>>)
    /\ [][\A id \in Ids :
            /\ Len(auctionBids'[id]) >= Len(auctionBids[id])
            /\ Len(auctionBids'[id]) # Len(auctionBids[id]) =>
                 /\ EmitStep(id, "BidPlaced")
                 /\ Len(auctionBids'[id]) = Len(auctionBids[id]) + 1
            /\ \A i \in BidIndices(id) :
                 /\ auctionBids'[id][i].bidder = auctionBids[id][i].bidder
                 /\ auctionBids'[id][i].deposit = auctionBids[id][i].deposit
                 /\ auctionBids'[id][i].encryptedBidAmount
                      = auctionBids[id][i].encryptedBidAmount]_vars

\* A second bid, differing from the first in bidder, deposit and handle, was
\* placed after the first bid had been verified
C23_Witness ==
    \E id \in Ids :
        /\ Len(auctionBids[id]) = 2
        /\ LastEventName(id) = "BidPlaced"
        /\ auctionBids[id][1].isVerified
        /\ auctionBids[id][1].bidder # auctionBids[id][2].bidder
        /\ auctionBids[id][1].deposit # auctionBids[id][2].deposit
        /\ auctionBids[id][1].encryptedBidAmount
             # auctionBids[id][2].encryptedBidAmount

----------------------------------------------------------------------------
(* C24 *)

\* The lowest (1-based) position holding the greatest plaintext of a
\* non-empty ledger: a function of the placed bids alone
FirstGreatestPlaintext(bids) ==
    CHOOSE i \in DOMAIN bids :
        /\ \A j \in DOMAIN bids :
             bids[j].encryptedBidAmount.clear <= bids[i].encryptedBidAmount.clear
        /\ \A j \in 1..(i - 1) :
             bids[j].encryptedBidAmount.clear < bids[i].encryptedBidAmount.clear

\* The storage after the authentic verification of the bid at the 1-based
\* position i
VerifiedAt(S, id, i) ==
    LET h == S.auctionBids[id][i].encryptedBidAmount IN
    verifyBidExec(S, id, i - 1, h.clear, KMSProof(h)).st

\* The storage after a speculative settleAuction now and a settleAuction
\* once the auction has ended
SettledLater(S, id) ==
    LET S1 == settleAuctionExec(S, now, id).st
        t == IF now > S1.auctions[id].endTime
             THEN now ELSE S1.auctions[id].endTime + 1
    IN settleAuctionExec(S1, t, id).st

\* What a settlement leaves observable about its outcome
Outcome(S, id) ==
    [winner |-> S.auctionWinners[id],
     winningBid |-> S.auctionWinningBids[id],
     transfers |-> S.transfers,
     balance |-> S.balance,
     isSettled |-> S.auctions[id].isSettled]

\* C24: the order of verification does not matter to the outcome. Verifying
\* two unverified bids in either order, with speculative settleAuction calls
\* in between, leads to the same winner, winning amount and transfer; and
\* every settlement's winner, amount and transferred deposit are those of
\* the first bid with the greatest plaintext, which the placed bids alone
\* determine.
C24_VerificationOrderIrrelevant ==
    /\ [](\A id \in Ids : \A i, j \in BidIndices(id) :
            /\ i # j
            /\ ~auctionBids[id][i].isVerified
            /\ ~auctionBids[id][j].isVerified
            => LET ij == VerifiedAt(
                           settleAuctionExec(VerifiedAt(State, id, i), now, id).st,
                           id, j)
                   ji == VerifiedAt(
                           settleAuctionExec(VerifiedAt(State, id, j), now, id).st,
                           id, i)
               IN Outcome(SettledLater(ij, id), id)
                    = Outcome(SettledLater(ji, id), id))
    /\ [][\A id \in Ids :
            SettleStep(id) =>
              LET bids == auctionBids[id]
                  w == FirstGreatestPlaintext(bids)
              IN /\ auctionWinners'[id] = bids[w].bidder
                 /\ auctionWinningBids'[id] = bids[w].encryptedBidAmount.clear
                 /\ transfers' = Append(transfers,
                                        [nftId |-> id, to |-> bids[w].bidder,
                                         amount |-> bids[w].deposit])]_vars

\* A settled auction whose second bid was verified before its first bid,
\* the first bid being the winner
C24_Witness ==
    \E id \in Ids :
        /\ auctions[id].isSettled
        /\ Len(auctionBids[id]) = 2
        /\ auctionBids[id][1].bidder # auctionBids[id][2].bidder
        /\ auctionWinners[id] = auctionBids[id][1].bidder
        /\ \E m, n \in DOMAIN events[id] :
             /\ m < n
             /\ events[id][m].name = "BidVerified"
             /\ events[id][m].bidder = auctionBids[id][2].bidder
             /\ events[id][n].name = "BidVerified"
             /\ events[id][n].bidder = auctionBids[id][1].bidder

----------------------------------------------------------------------------
(* C25 *)

\* The positions of an nftId's log that hold an event of this name
EventsNamed(id, name) == {k \in DOMAIN events[id] : events[id][k].name = name}

\* C25: event log discipline. A step adds at most one event and a step that
\* changes the storage of an nftId adds one; per nftId AuctionCreated is
\* emitted at most once and precedes every BidPlaced, there are as many
\* BidPlaced as bids and at every point of the log no more BidVerified than
\* BidPlaced, and AuctionSettled is emitted at most once, after the
\* BidVerified of every bid.
C25_EventLogDiscipline ==
    /\ [](\A id \in Ids :
            /\ Cardinality(EventsNamed(id, "AuctionCreated")) <= 1
            /\ \A k \in EventsNamed(id, "BidPlaced") :
                 \E c \in EventsNamed(id, "AuctionCreated") : c < k
            /\ Cardinality(EventsNamed(id, "BidPlaced")) = Len(auctionBids[id])
            /\ \A k \in DOMAIN events[id] :
                 Cardinality({v \in EventsNamed(id, "BidVerified") : v <= k})
                   <= Cardinality({p \in EventsNamed(id, "BidPlaced") : p <= k})
            /\ Cardinality(EventsNamed(id, "BidVerified"))
                 = Cardinality({i \in BidIndices(id) : auctionBids[id][i].isVerified})
            /\ Cardinality(EventsNamed(id, "AuctionSettled")) <= 1
            /\ \A s \in EventsNamed(id, "AuctionSettled") :
                 /\ AllVerified(id)
                 /\ \A v \in EventsNamed(id, "BidVerified") : v < s)
    /\ [][\A id \in Ids :
            /\ Len(events'[id]) <= Len(events[id]) + 1
            /\ SubSeq(events'[id], 1, Len(events[id])) = events[id]
            /\ (auctions'[id] # auctions[id] \/ auctionBids'[id] # auctionBids[id]
                  \/ auctionWinners'[id] # auctionWinners[id])
                 => Len(events'[id]) = Len(events[id]) + 1]_vars

----------------------------------------------------------------------------
(* C26 *)

RECURSIVE SumDeposits(_)
\* The sum of the deposits stored with the bids of a ledger
SumDeposits(bids) ==
    IF bids = <<>> THEN 0
    ELSE bids[1].deposit + SumDeposits(Tail(bids))

RECURSIVE SumOver(_, _)
\* The sum of f[x] for x in the set
SumOver(set, f) ==
    IF set = {} THEN 0
    ELSE LET x == CHOOSE y \in set : TRUE
         IN f[x] + SumOver(set \ {x}, f)

\* The deposit of the winning bid of a settled auction, 0 when not settled
WinningDeposit(id) ==
    IF auctions[id].isSettled
    THEN auctionBids[id][FirstGreatest(auctionBids[id])].deposit
    ELSE 0

\* C26: escrow solvency. In every reachable state the contract's balance is
\* the sum of the deposits of all bids ever placed minus the sum of the
\* winning bids' deposits of the settled auctions, and no nftId has been
\* paid more than once.
C26_EscrowSolvency ==
    /\ balance =
         SumOver(Ids, [id \in Ids |-> SumDeposits(auctionBids[id])])
           - SumOver(Ids, [id \in Ids |-> WinningDeposit(id)])
    /\ \A id \in Ids : TransfersFor(id) <= 1

----------------------------------------------------------------------------
(* C27 *)

\* The auction holds a bid whose handle encrypts 0
HasZeroBid(id) ==
    \E i \in BidIndices(id) : auctionBids[id][i].encryptedBidAmount.clear = 0

----------------------------------------------------------------------------
(* C28 *)

\* The auction has ended with at least one bid, and every bid of it opens
\* to a strictly positive plaintext
EndedWithPositiveBids(id) ==
    /\ Registered(id)
    /\ now > auctions[id].endTime
    /\ Len(auctionBids[id]) >= 1
    /\ \A i \in BidIndices(id) : auctionBids[id][i].encryptedBidAmount.clear > 0

\* C28: liveness of settlement. With time, verifyBid and settleAuction
\* weakly fair, an auction that has ended with at least one bid, all its
\* bids opening to strictly positive plaintexts, is eventually settled; and
\* a settled auction stays settled.
C28_SettlementIsLive ==
    /\ \A id \in Ids : EndedWithPositiveBids(id) ~> auctions[id].isSettled
    /\ [][\A id \in Ids : auctions[id].isSettled => auctions'[id].isSettled]_vars

----------------------------------------------------------------------------
(* C29 *)

\* What the contract stores under one nftId: the auction record, the bid
\* ledger and the settlement outcome
Slice(S, id) ==
    [auction |-> S.auctions[id],
     bids |-> S.auctionBids[id],
     winner |-> S.auctionWinners[id],
     winningBid |-> S.auctionWinningBids[id]]

\* C29: auctions are isolated from each other. Every createAuction,
\* placeBid, verifyBid or settleAuction call on an nftId A, successful or
\* not, leaves the auction record, the bid ledger and the settlement outcome
\* stored under every other nftId B as they were; and no step changes what
\* is stored under two nftIds.
C29_AuctionsAreIsolated ==
    /\ [](\A A \in Ids : \A B \in Ids \ {A} :
            /\ \A sch \in Schedules :
                 Slice(createAuctionExec(State, now, A, sch[1], sch[2]).st, B)
                   = Slice(State, B)
            /\ \A sender \in Principals : \A value \in 0..MaxDeposit :
                 \A input \in EncryptedInputs :
                   Slice(placeBidExec(State, now, sender, value, A, input).st, B)
                     = Slice(State, B)
            /\ \A bidIndex \in 0..MaxBids : \A clear \in 0..MaxAmount :
                 \A proof \in AllProofs(clear) :
                   Slice(verifyBidExec(State, A, bidIndex, clear, proof).st, B)
                     = Slice(State, B)
            /\ Slice(settleAuctionExec(State, now, A).st, B) = Slice(State, B))
    /\ [][\A A \in Ids : \A B \in Ids \ {A} :
            ~(/\ <<auctions'[A], auctionBids'[A], auctionWinners'[A],
                   auctionWinningBids'[A]>>
                 # <<auctions[A], auctionBids[A], auctionWinners[A],
                     auctionWinningBids[A]>>
              /\ <<auctions'[B], auctionBids'[B], auctionWinners'[B],
                   auctionWinningBids'[B]>>
                 # <<auctions[B], auctionBids[B], auctionWinners[B],
                     auctionWinningBids[B]>>)]_vars

\* One auction has just been settled while the other, registered and ended,
\* holds a verified and an unverified bid and is not settled
C29_Witness ==
    \E A \in Ids : \E B \in Ids \ {A} :
        /\ auctions[A].isSettled
        /\ LastEventName(A) = "AuctionSettled"
        /\ Registered(B)
        /\ ~auctions[B].isSettled
        /\ now > auctions[B].endTime
        /\ Len(auctionBids[B]) = 2
        /\ auctionBids[B][1].isVerified
        /\ ~auctionBids[B][2].isVerified
        /\ auctionWinners[B] = ZeroAddress

====
